---- MODULE Spec2Model ----
(***************************************************************************)
(* Model of the x402 performance-benchmarking example                      *)
(* (examples/typescript/clients/performance-benchmarking/index.ts).        *)
(*                                                                         *)
(* Units.  performance.now() is a clock with sub-millisecond resolution:   *)
(* `clock` counts thousandths of a millisecond.  Date.now() is the same    *)
(* clock truncated to whole milliseconds.  A value rounded by              *)
(* Math.round(x * 100) / 100 is held in hundredths (of a millisecond, or   *)
(* of a percent for errorRate).                                            *)
(*                                                                         *)
(* Scheduling.  JavaScript runs one synchronous segment at a time:         *)
(* `running` names the invocation whose segment is on the thread (0: none).*)
(* A segment ends at an await; requests in flight settle only while no     *)
(* segment runs.                                                           *)
(***************************************************************************)
EXTENDS Integers, Sequences, FiniteSets, TLC

\* ------------------------------------------------------------------ bounds
MaxIter == 2             \* largest `iterations` passed to benchmarkPaymentVerification
MaxEndpoints == 2        \* longest endpoint list of a batch benchmark that is run
MaxConcurrency == 2      \* largest concurrency level of a batch benchmark that is run
MaxStatLen == 4          \* longest free-form sample collection given to calculateStats
RampMax == 100           \* longest collection n, n-1, ..., 1 ms given to calculateStats
MaxListLen == 13         \* longest endpoint list that is partitioned only
MaxGroupSize == 6        \* largest concurrency level of a list that is partitioned only
MaxResults == 2          \* longest BenchmarkResult list given to displayOptimizations
MaxOverlapIter == 1      \* largest `iterations` of two invocations that overlap
MaxInitCalls == 2        \* initialize() calls made on one MultiChainX402Client
MaxRetries == 3          \* largest maxRetries given to withRetry

\* Time that passes between two consecutive settle events (thousandths of a ms).
Durations == {5, 1500}
\* What one client.get(endpoint) can end in: a response, a failure carrying
\* status 402, a failure carrying another status, a failure with no response.
Outcomes == {"ok", "402", "500", "noresponse"}

\* The invocations made, in this order, on one PerformanceBenchmarker.
Calls == {1, 2}

\* ----------------------------------------------------------- program constants
BatchIterationCap == 10

VARIABLES
  measurements,   \* this.measurements
  clock,          \* the time, in thousandths of a millisecond
  running,        \* the invocation whose synchronous segment is executing, or 0
  pc,             \* pc[c]: where invocation c is
  frame,          \* frame[c]: the locals of invocation c
  inflight,       \* the client.get requests issued and not yet settled
  result,         \* result[c]: what invocation c handed to its caller
  probes,         \* probes[url]: the latency measurement of one endpoint
  netpc,          \* where analyzeNetwork() is
  metrics,        \* the NetworkMetrics analyzeNetwork() returned
  results,        \* the BenchmarkResult list given to displayOptimizations
  report,         \* what displayOptimizations printed below its heading
  retry,          \* the withRetry call of the error-handling example
  multichain      \* the MultiChainX402Client of the multi-chain example

\* The state of the two other examples.
exampleVars == <<retry, multichain>>

\* The state of the network analysis and of the recommendations, and of the
\* other examples: what the benchmark harness leaves alone.
analysisVars == <<probes, netpc, metrics, results, report, retry, multichain>>

vars == <<measurements, clock, running, pc, frame, inflight, result,
          probes, netpc, metrics, results, report, retry, multichain>>

\* ------------------------------------------------------------- JS numbers
Num(n) == [isFinite |-> TRUE, n |-> n]
PosInfinity == [isFinite |-> FALSE, n |-> 0]

Min(a, b) == IF a <= b THEN a ELSE b

\* performance.now(), in thousandths of a millisecond
PerformanceNow == clock
\* Date.now(), in whole milliseconds
DateNow == clock \div 1000

\* Math.round(x * 100) / 100 for x >= 0 given in thousandths: hundredths.
\* Math.round rounds a half up.  (Durations are held as exact thousandths; the
\* binary representation error of a double is not modelled.)
Round2(x) == (x + 5) \div 10
\* Math.round(sum / n * 100) / 100 for a sum in thousandths: hundredths.
Round2Avg(sum, n) == (2 * sum + 10 * n) \div (20 * n)

\* reduce((sum, t) => sum + t, 0), summed by halves
RECURSIVE SeqSum(_)
SeqSum(s) ==
  IF Len(s) = 0 THEN 0
  ELSE IF Len(s) = 1 THEN s[1]
  ELSE LET h == Len(s) \div 2
       IN SeqSum(SubSeq(s, 1, h)) + SeqSum(SubSeq(s, h + 1, Len(s)))

\* Mutant: the copy is not sorted.
SortNone(s) == s

\* this.measurements.slice().sort((a, b) => a - b)
\* The result is the stable ascending arrangement: element j goes to the
\* position that counts the smaller elements and the equal ones before it.
SortAsc(s) ==
  LET n == Len(s)
      rank == [j \in 1..n |->
                 1 + Cardinality({k \in 1..n : s[k] < s[j] \/ (s[k] = s[j] /\ k < j)})]
      from == [p \in 1..n |-> CHOOSE j \in 1..n : rank[j] = p]
  IN [p \in 1..n |-> s[from[p]]]

\* Mutant: the nearest-rank index ceil(n * q) - 1.
PercentileIndexNearestRank(n, q) == ((n * q + 99) \div 100) - 1

\* Math.floor(sorted.length * q), q given in hundredths; 0-based.
PercentileIndex(n, q) == (n * q) \div 100

\* sorted[k] of a JavaScript array (0-based); reading past the end is undefined.
At(sorted, k) == sorted[k + 1]

\* Math.round((iterations / totalTimeMs) * 1000)
OpsPerSecond(iterations, totalTimeMs) ==
  IF totalTimeMs = 0 THEN PosInfinity
  ELSE Num((2000 * iterations + totalTimeMs) \div (2 * totalTimeMs))

\* Math.round((errors / iterations) * 100 * 100) / 100, in hundredths of a percent
ErrorRate(errors, iterations) == (20000 * errors + iterations) \div (2 * iterations)

NoValue ==
  [operation |-> "none", iterations |-> 0, totalTimeMs |-> 0, avgTimeMs |-> 0,
   minTimeMs |-> 0, maxTimeMs |-> 0, p50Ms |-> 0, p95Ms |-> 0, p99Ms |-> 0,
   opsPerSecond |-> Num(0), success |-> 0, errors |-> 0, errorRate |-> 0]

NoResult == [status |-> "none", value |-> NoValue]
Threw == [status |-> "threw", value |-> NoValue]

\* calculateStats: throws on an empty collection, else the BenchmarkResult.
CalculateStats(meas, operation, iterations, totalTimeMs, success, errors) ==
  IF Len(meas) = 0 THEN Threw
  ELSE
    LET sorted == SortAsc(meas)
        n == Len(sorted)
    IN [status |-> "returned",
        value |->
          [operation |-> operation,
           iterations |-> iterations,
           totalTimeMs |-> totalTimeMs,
           avgTimeMs |-> Round2Avg(SeqSum(meas), Len(meas)),
           minTimeMs |-> Round2(At(sorted, 0)),
           maxTimeMs |-> Round2(At(sorted, n - 1)),
           p50Ms |-> Round2(At(sorted, PercentileIndex(n, 50))),
           p95Ms |-> Round2(At(sorted, PercentileIndex(n, 95))),
           p99Ms |-> Round2(At(sorted, PercentileIndex(n, 99))),
           opsPerSecond |-> OpsPerSecond(iterations, totalTimeMs),
           success |-> success,
           errors |-> errors,
           errorRate |-> ErrorRate(errors, iterations)]]

\* ------------------------------------------------------------- the frames
IdleFrame ==
  [kind |-> "none", iterations |-> 0, i |-> 0, successCount |-> 0, errorCount |-> 0,
   startTime |-> 0, iterationStart |-> 0, endpoints |-> 0, concurrency |-> 0,
   batches |-> <<>>, sliceFrom |-> 0, batchIdx |-> 0, testFn |-> "none",
   warmupWarned |-> FALSE, outcome |-> "none", groupResults |-> {},
   invocations |-> 0, progressCount |-> 0, oddPasses |-> FALSE]

\* What is left of an invocation once it has ended: the arguments its caller
\* passed and what the spinner printed.
EndedFrame(f) ==
  [IdleFrame EXCEPT !.kind = f.kind, !.iterations = f.iterations,
                    !.endpoints = f.endpoints, !.concurrency = f.concurrency,
                    !.warmupWarned = f.warmupWarned]

\* The trial tag of the warmup call.
Warmup == -1

Request(c, trial, group, endpoint) ==
  [owner |-> c, trial |-> trial, group |-> group, endpoint |-> endpoint]

RequestsOf(c) == {r \in inflight : r.owner = c}

\* Mutant: the slice ends one element early.
SliceEndsEarly(n, from, k) == [j \in 1..(Min(from + k - 1, n) - from) |-> from + j]

\* Array.prototype.slice's reading of an index x of a list of n elements: a
\* negative index counts from the end, and the result is kept within 0..n
SliceIndex(n, x) == IF x < 0 THEN (IF n + x < 0 THEN 0 ELSE n + x) ELSE Min(x, n)

\* endpoints.slice(from, from + k) of the list 1..n (from is 0-based)
Slice(n, from, k) ==
  [j \in 1..(SliceIndex(n, from + k) - SliceIndex(n, from)) |-> SliceIndex(n, from) + j]

SeqRange(s) == {s[j] : j \in 1..Len(s)}

\* batch.map(endpoint => this.client.get(endpoint)...): one request per member
GroupRequests(c, trial, f, g) ==
  {Request(c, trial, g, e) : e \in SeqRange(f.batches[g])}

\* testFn(): what the call leaves behind when it reaches its first await.
\* <<the frame, the requests it issued>>
\* f.outcome is how the request of the last verification call ended;
\* f.groupResults are the promises of the last group given to allSettled that
\* have settled, each fulfilled or rejected.
\* f.invocations counts the calls of testFn.
TestFnStart(c, trial, f) ==
  IF f.kind = "verification"
  THEN <<[f EXCEPT !.testFn = "pending", !.outcome = "none", !.invocations = @ + 1],
         {Request(c, trial, 0, 1)}>>
  ELSE IF Len(f.batches) = 0
       THEN <<[f EXCEPT !.testFn = "resolved", !.invocations = @ + 1], {}>>
       ELSE <<[f EXCEPT !.testFn = "pending", !.batchIdx = 1, !.groupResults = {},
                        !.invocations = @ + 1],
              GroupRequests(c, trial, f, 1)>>

\* Mutant: the wrapper swallows every failure that carries a response.
VerificationSwallowsStatus(outcome) ==
  IF outcome = "noresponse" THEN "rejected" ELSE "resolved"

\* benchmarkPaymentVerification's wrapper: only a failure other than 402 is rethrown.
VerificationSettles(outcome) ==
  IF outcome = "ok" \/ outcome = "402" THEN "resolved" ELSE "rejected"

\* lines 173-175: this.client.get(endpoint).catch(e => { if (e.response?.status
\* !== 402) throw e; }): the promise of one member of a group
MemberSettles(outcome) ==
  IF outcome = "ok" \/ outcome = "402" THEN "fulfilled" ELSE "rejected"

\* The batch testFn after Promise.allSettled of group f.batchIdx: the next group
\* of the for-of loop, or the end of testFn.  allSettled never rejects.
BatchAfterGroup(c, trial, f) ==
  IF f.batchIdx < Len(f.batches)
  THEN <<[f EXCEPT !.batchIdx = f.batchIdx + 1, !.groupResults = {}],
         GroupRequests(c, trial, f, f.batchIdx + 1)>>
  ELSE <<[f EXCEPT !.testFn = "resolved"], {}>>

\* Mutant: Promise.all in place of Promise.allSettled: the first rejected
\* member rejects the await, and testFn with it.
BatchMemberSettledFailFast(c, trial, f, rest, status) ==
  IF status = "rejected" THEN <<[f EXCEPT !.testFn = "rejected"], {}>>
  ELSE IF rest # {} THEN <<f, {}>>
  ELSE BatchAfterGroup(c, trial, f)

\* line 171: await Promise.allSettled(...) after one member settled as `status`
\* while the requests `rest` of the group are still in flight: the await goes
\* on only when no member is left, whatever the members' outcomes
BatchMemberSettled(c, trial, f, rest, status) ==
  IF rest # {} THEN <<f, {}>> ELSE BatchAfterGroup(c, trial, f)

\* --------------------------------------------------------- NetworkAnalyzer
\* lines 234-238 and 240-244: the endpoints analyzeNetwork() probes
Facilitators ==
  <<"https://facilitator.x402.org", "https://facilitator.thirdweb.com",
    "https://facilitator.xpay.sh">>

RpcEndpoints ==
  <<"https://mainnet.base.org", "https://base-mainnet.public.blastapi.io",
    "https://base.gateway.tenderly.co">>

Urls == SeqRange(Facilitators) \cup SeqRange(RpcEndpoints)

\* The latency a probe returns when its endpoint is unreachable.
Sentinel == -1

\* A JavaScript number that is the quotient of two integers (den > 0).
Ratio(num, den) == [num |-> num, den |-> den]

\* A probe not started: no request issued.
NoProbe == [pc |-> "idle", request |-> "none", requests |-> 0, start |-> 0,
            latency |-> 0]

\* measureFacilitatorLatency(url) up to its first await: start is taken and
\* one GET <url>/supported is issued.
MeasureFacilitatorLatency(url) ==
  [pc |-> "fetch", request |-> "GET /supported", requests |-> 1,
   start |-> PerformanceNow, latency |-> 0]

\* measureRpcLatency(url) up to its first await: start is taken and one
\* JSON-RPC eth_blockNumber POST is issued.
MeasureRpcLatency(url) ==
  [pc |-> "fetch", request |-> "POST eth_blockNumber", requests |-> 1,
   start |-> PerformanceNow, latency |-> 0]

\* Mutant: the probe has no catch: a failure leaves it by an exception.
ProbeFailedRethrows(p) == [p EXCEPT !.pc = "threw"]

\* The catch of a probe: whatever failed, the probe returns the sentinel.
ProbeFailed(p) == [p EXCEPT !.pc = "returned", !.latency = Sentinel]

\* return performance.now() - start, at the time `now`
ProbeReturns(p, now) ==
  [p EXCEPT !.pc = "returned", !.latency = now - p.start]

\* Promise.all(list.map(probe)): rejected with the first probe that throws,
\* fulfilled with the array of latencies when every probe has returned.
PromiseAll(list) ==
  IF \E j \in 1..Len(list) : probes[list[j]].pc = "threw" THEN "rejected"
  ELSE IF \A j \in 1..Len(list) : probes[list[j]].pc = "returned" THEN "fulfilled"
  ELSE "pending"

Latencies(list) == [j \in 1..Len(list) |-> probes[list[j]].latency]

\* latencies.filter(l => l > 0)
ValidLatencies(latencies) == SelectSeq(latencies, LAMBDA l : l > 0)

\* valid.length > 0 ? valid.reduce((sum, l) => sum + l, 0) / valid.length : -1
AverageLatency(valid) ==
  IF Len(valid) > 0 THEN Ratio(SeqSum(valid), Len(valid)) ELSE Ratio(Sentinel, 1)

\* Mutant: only the endpoints that answered are counted as round trips.
TotalRoundTripsAnswered ==
  Len(ValidLatencies(Latencies(Facilitators))) + Len(ValidLatencies(Latencies(RpcEndpoints)))

TotalRoundTrips == Len(Facilitators) + Len(RpcEndpoints)

NoMetrics ==
  [facilitatorLatency |-> Ratio(0, 1), rpcLatency |-> Ratio(0, 1),
   totalRoundTrips |-> 0, dataTransferred |-> 0]

\* The object analyzeNetwork() returns.
NetworkMetrics ==
  [facilitatorLatency |-> AverageLatency(ValidLatencies(Latencies(Facilitators))),
   rpcLatency |-> AverageLatency(ValidLatencies(Latencies(RpcEndpoints))),
   totalRoundTrips |-> TotalRoundTrips,
   dataTransferred |-> 0]

\* ---------------------------------------------------- displayOptimizations
\* The thresholds of the four rules: ms, ms, percent, operations per second.
HighLatencyMs == 500
FacilitatorLatencyMs == 200
ErrorRatePercent == 5
LowThroughputOps == 10

\* One string pushed to `recommendations`; bullet: it starts with two blanks.
\* The bullet sign of the source is written * here.
Heading(text) == [bullet |-> FALSE, text |-> text]
Bullet(text) == [bullet |-> TRUE, text |-> text]

HighLatencyAdvice ==
  <<Heading("High average latency detected. Consider:"),
    Bullet("  * Using a closer RPC endpoint"),
    Bullet("  * Implementing request caching"),
    Bullet("  * Using connection pooling")>>

FacilitatorAdvice ==
  <<Heading("Facilitator latency is high. Consider:"),
    Bullet("  * Using a geographically closer facilitator"),
    Bullet("  * Implementing facilitator health checking")>>

ErrorRateAdvice ==
  <<Heading("Error rate is elevated. Consider:"),
    Bullet("  * Implementing retry logic with exponential backoff"),
    Bullet("  * Adding circuit breaker patterns"),
    Bullet("  * Monitoring facilitator health")>>

LowThroughputAdvice ==
  <<Heading("Low throughput detected. Consider:"),
    Bullet("  * Batching requests when possible"),
    Bullet("  * Using connection keep-alive"),
    Bullet("  * Optimizing payload sizes")>>

LooksGood ==
  [style |-> "green", text |-> "Performance looks good! No immediate optimizations needed."]

\* avgLatency > ms, avgLatency the sum of avgTimeMs (hundredths of a ms) over
\* results.length; with no result it is 0 / 0 = NaN, greater than nothing
AvgLatencyAbove(rs, ms) ==
  IF Len(rs) = 0 THEN FALSE
  ELSE SeqSum([j \in 1..Len(rs) |-> rs[j].avgTimeMs]) > ms * 100 * Len(rs)

\* networkMetrics.facilitatorLatency > ms (the latency in thousandths of a ms)
FacilitatorLatencyAbove(m, ms) ==
  m.facilitatorLatency.num > ms * 1000 * m.facilitatorLatency.den

\* results.some(r => r.errorRate > pct), errorRate in hundredths of a percent
SomeErrorRateAbove(rs, pct) == \E j \in 1..Len(rs) : rs[j].errorRate > pct * 100

\* Mutant: the slowest operation decides, not the fastest.
MinOpsBelow(rs, ops) ==
  \E j \in 1..Len(rs) : rs[j].opsPerSecond.isFinite /\ rs[j].opsPerSecond.n < ops

\* Math.max(...results.map(r => r.opsPerSecond)) < ops; the maximum of no
\* number is -Infinity
MaxOpsBelow(rs, ops) ==
  \A j \in 1..Len(rs) : rs[j].opsPerSecond.isFinite /\ rs[j].opsPerSecond.n < ops

\* The array `recommendations` after the four rules.
Recommendations(rs, m) ==
  (IF AvgLatencyAbove(rs, HighLatencyMs) THEN HighLatencyAdvice ELSE <<>>)
  \o (IF FacilitatorLatencyAbove(m, FacilitatorLatencyMs) THEN FacilitatorAdvice ELSE <<>>)
  \o (IF SomeErrorRateAbove(rs, ErrorRatePercent) THEN ErrorRateAdvice ELSE <<>>)
  \o (IF MaxOpsBelow(rs, LowThroughputOps) THEN LowThroughputAdvice ELSE <<>>)

\* How one recommendation is printed: a bullet in gray, a heading in yellow
\* behind a warning sign.
PrintedLine(rec) ==
  [style |-> IF rec.bullet THEN "gray" ELSE "yellow", text |-> rec.text]

\* Mutant: the closing message is printed whatever the list holds.
PrintedAlwaysLooksGood(recs) ==
  [j \in 1..Len(recs) |-> PrintedLine(recs[j])] \o <<LooksGood>>

\* lines 375-385: what is printed for the array `recommendations`
Printed(recs) ==
  IF Len(recs) = 0 THEN <<LooksGood>>
  ELSE [j \in 1..Len(recs) |-> PrintedLine(recs[j])]

\* Nothing printed: displayOptimizations not called yet.
NoReport == [shown |-> FALSE, lines |-> <<>>]

\* ------------------------------------- error-handling example: withRetry
\* (src/unnamed/part_000)
\* A thrown value, by what classify() looks at: its shape ("object": a
\* non-null object that is no Error; "Error"; "string"; "other"), whether it
\* has a `code` and which, and its text (the string, or the message).
Thrown(shape, hasCode, code, text) ==
  [shape |-> shape, hasCode |-> hasCode, code |-> code, text |-> text]

\* The words classify() and isRetryable() search for that a text contains
\* (String.prototype.includes is case-sensitive).
WordsIn(text) ==
  CASE text = "insufficient funds for transfer" -> {"insufficient"}
    [] text = "network is unreachable" -> {"network"}
    [] text = "request timeout" -> {"timeout"}
    [] text = "User denied transaction signature" -> {"User denied"}
    [] text = "nonce too low" -> {"nonce"}
    [] text = "Transaction nonce issue - possible race condition" -> {"nonce"}
    [] OTHER -> {}

Includes(text, word) == word \in WordsIn(text)

\* The context classify() is given: { attempt } or { step }.
Context(attempt, step) == [attempt |-> attempt, step |-> step]

X402Error(type, message, context) ==
  [type |-> type, message |-> message, context |-> context]

\* lastError before any attempt has failed (undefined).
NoError == X402Error("none", "", Context(0, "none"))

\* An X402Error as a thrown value: a plain object with the keys type, message,
\* originalError and context, and no `code`.
AsThrown(x) == Thrown("object", FALSE, 0, x.message)

\* X402ErrorHandler.classify(error, context), lines 50-150
Classify(error, context) ==
  LET isObject == error.shape \in {"object", "Error"}
  IN IF isObject /\ error.hasCode /\ error.code = 402
       THEN X402Error("PAYMENT_ERROR",
                      "Payment required - this resource requires x402 payment", context)
     ELSE IF isObject /\ error.hasCode /\ error.code = 401
       THEN X402Error("AUTH_ERROR", "Authentication failed - check payment proof", context)
     ELSE IF isObject /\ error.hasCode /\ error.code >= 500
       THEN X402Error("NETWORK_ERROR", "Server error - please retry", context)
     ELSE IF isObject /\ error.hasCode /\ error.code = -32000
       THEN X402Error("PAYMENT_ERROR", "Insufficient funds or gas estimation failed", context)
     ELSE IF error.shape = "string" /\ Includes(error.text, "insufficient")
       THEN X402Error("PAYMENT_ERROR", "Insufficient balance to complete payment", context)
     ELSE IF error.shape = "string"
               /\ (Includes(error.text, "network") \/ Includes(error.text, "timeout"))
       THEN X402Error("NETWORK_ERROR", "Network connectivity issue", context)
     ELSE IF error.shape = "Error" /\ Includes(error.text, "User denied")
       THEN X402Error("AUTH_ERROR", "User rejected the transaction", context)
     ELSE IF error.shape = "Error" /\ Includes(error.text, "nonce")
       THEN X402Error("PAYMENT_ERROR",
                      "Transaction nonce issue - possible race condition", context)
     ELSE IF error.shape = "Error"
       THEN X402Error("VALIDATION_ERROR", error.text, context)
     ELSE X402Error("UNKNOWN_ERROR", "An unexpected error occurred", context)

\* Mutant: every classified error is retried.
IsRetryableAlways(x) == TRUE

\* X402ErrorHandler.isRetryable, lines 175-179
IsRetryable(x) ==
  x.type = "NETWORK_ERROR" \/ (x.type = "PAYMENT_ERROR" /\ Includes(x.message, "nonce"))

\* Math.pow(2, k) for a whole k >= 0
RECURSIVE Pow2(_)
Pow2(k) == IF k <= 0 THEN 1 ELSE 2 * Pow2(k - 1)

\* Mutant: the delay grows linearly.
DelayLinear(baseDelayMs, attempt) == baseDelayMs * (attempt + 1)

\* line 202: baseDelayMs * Math.pow(2, attempt)
Delay(baseDelayMs, attempt) == baseDelayMs * Pow2(attempt)

\* Mutant: `await fn()` without the return: the loop goes on after a success.
AfterSuccessGoesOn == "next"

\* line 194: return await fn(): a fulfilled attempt ends withRetry
AfterSuccess == "returned"

\* No call of withRetry made.
NoRetry ==
  [pc |-> "idle", caller |-> "none", maxRetries |-> 0, baseDelayMs |-> 0,
   attempt |-> 0, calls |-> 0, waits |-> <<>>,
   lastError |-> NoError, value |-> "none", thrown |-> NoError]

\* ------------------------- multi-chain example: MultiChainX402Client
\* The client after its constructor (lines 82-88): no wallet, no scheme.
\* evmPrivateKey, aptosPrivateKey and isTestnet are what the running
\* initialize() reads from process.env; attempted holds the chains whose
\* initialization it has called, everInitialized the chains whose
\* initialization has returned true on this client, calls the number of
\* initialize() calls made.
ChainIdle ==
  [pc |-> "idle", calls |-> 0,
   evmPrivateKey |-> "missing", aptosPrivateKey |-> "missing", isTestnet |-> FALSE,
   evmInitialized |-> FALSE, aptosInitialized |-> FALSE,
   walletSetup |-> [evm |-> "undefined", aptos |-> "undefined"], schemes |-> <<>>,
   attempted |-> {}, everInitialized |-> {}, returned |-> "none"]

\* Before analyzeNetwork() and displayOptimizations() are called.
AnalysisIdle ==
  /\ probes = [u \in Urls |-> NoProbe]
  /\ netpc = "idle"
  /\ metrics = NoMetrics
  /\ results = <<>>
  /\ report = NoReport
  /\ retry = NoRetry
  /\ multichain = ChainIdle

\* --------------------------------------------------------------- actions
Init ==
  /\ measurements = <<>>
  /\ clock = 0
  /\ running = 0
  /\ pc = [c \in Calls |-> "idle"]
  /\ frame = [c \in Calls |-> IdleFrame]
  /\ inflight = {}
  /\ result = [c \in Calls |-> NoResult]
  /\ AnalysisIdle

Finished(c) == pc[c] = "done"

\* The caller awaits each benchmark before it starts the next (main).
MayCall(c) ==
  /\ pc[c] = "idle"
  /\ running = 0
  /\ \A d \in Calls : (d < c => Finished(d)) /\ (d > c => pc[d] = "idle")

\* benchmark(), lines 58-65: the warmup call of testFn.
EnterBenchmark(c, f) ==
  LET s == TestFnStart(c, Warmup, f)
  IN /\ frame' = [frame EXCEPT ![c] = s[1]]
     /\ inflight' = inflight \cup s[2]
     /\ pc' = [pc EXCEPT ![c] = "warmup"]
     /\ running' = 0

\* benchmarkPaymentVerification(endpoint, iterations)
VerificationCall(c) ==
  /\ MayCall(c)
  /\ \E n \in 0..MaxIter :
       EnterBenchmark(c, [IdleFrame EXCEPT !.kind = "verification", !.iterations = n])
  /\ UNCHANGED analysisVars
  /\ UNCHANGED <<measurements, clock, result>>

\* benchmarkBatchOperations(endpoints, concurrency), lines 161-163, for a list
\* of at most maxN endpoints and a concurrency level of at most maxK
BatchCallWith(c, maxN, maxK) ==
  /\ MayCall(c)
  /\ \E n \in 0..maxN, k \in 1..maxK :
       frame' = [frame EXCEPT ![c] =
                   [IdleFrame EXCEPT !.kind = "batch", !.endpoints = n, !.concurrency = k]]
  /\ pc' = [pc EXCEPT ![c] = "partition"]
  /\ running' = c
  /\ UNCHANGED analysisVars
  /\ UNCHANGED <<measurements, clock, inflight, result>>

BatchCall(c) == BatchCallWith(c, MaxEndpoints, MaxConcurrency)

\* lines 163-165: one pass of the partitioning loop
PartitionStep(c) ==
  /\ pc[c] = "partition"
  /\ running = c
  /\ frame[c].sliceFrom < frame[c].endpoints
  /\ frame' = [frame EXCEPT ![c] =
       [@ EXCEPT !.batches = Append(@, Slice(frame[c].endpoints, frame[c].sliceFrom,
                                              frame[c].concurrency)),
                 !.sliceFrom = @ + frame[c].concurrency]]
  /\ UNCHANGED analysisVars
  /\ UNCHANGED <<measurements, clock, running, pc, inflight, result>>

\* Mutant: the iteration count is forced to be at least one.
BatchIterationsAtLeastOne(nbatches) ==
  IF nbatches = 0 THEN 1 ELSE Min(BatchIterationCap, nbatches)

\* Math.min(10, batches.length)
BatchIterations(nbatches) == Min(BatchIterationCap, nbatches)

\* lines 167-181: the loop has ended; benchmark() is entered
BatchInvoke(c) ==
  /\ pc[c] = "partition"
  /\ running = c
  /\ ~(frame[c].sliceFrom < frame[c].endpoints)
  /\ EnterBenchmark(c, [frame[c] EXCEPT
                          !.iterations = BatchIterations(Len(frame[c].batches))])
  /\ UNCHANGED analysisVars
  /\ UNCHANGED <<measurements, clock, result>>

\* The trial an invocation's testFn call belongs to.
CurrentTrial(c) == IF pc[c] = "warmup" THEN Warmup ELSE frame[c].i

\* A request in flight settles; time has passed since the last event.
RequestSettle(r) ==
  /\ running = 0
  /\ r \in inflight
  /\ \E o \in Outcomes, d \in Durations :
       LET c == r.owner
           f == frame[c]
           rest == RequestsOf(c) \ {r}
           next == IF f.kind = "verification"
                   THEN <<[f EXCEPT !.testFn = VerificationSettles(o), !.outcome = o], {}>>
                   ELSE BatchMemberSettled(c, r.trial,
                          [f EXCEPT !.groupResults =
                             @ \cup {[endpoint |-> r.endpoint, status |-> MemberSettles(o)]}],
                          rest, MemberSettles(o))
       IN /\ clock' = clock + d
          /\ frame' = [frame EXCEPT ![c] = next[1]]
          /\ inflight' = (inflight \ {r}) \cup next[2]
  /\ UNCHANGED analysisVars
  /\ UNCHANGED <<measurements, running, pc, result>>

\* Mutant: the collection is not reset at the start of the measured phase.
KeepMeasurements == measurements

\* line 71: this.measurements = []
ResetMeasurements == <<>>

\* Mutant: a rejected warmup is counted as an error of the measured phase.
WarmupFrameCountsFailure(f, settled) ==
  [f EXCEPT !.warmupWarned = (settled = "rejected"),
            !.successCount = 0,
            !.errorCount = IF settled = "rejected" THEN 1 ELSE 0,
            !.startTime = DateNow, !.i = 0, !.testFn = "none"]

\* Mutant: the warmup call is taken for the first trial.
WarmupFrameIsFirstTrial(f, settled) ==
  [f EXCEPT !.warmupWarned = (settled = "rejected"),
            !.successCount = 0, !.errorCount = 0, !.startTime = DateNow,
            !.i = 1, !.testFn = "none"]

\* lines 64-74: the locals after a warmup that settled as `settled`; a rejected
\* warmup is caught and only reported by spinner.warn
WarmupFrame(f, settled) ==
  [f EXCEPT !.warmupWarned = (settled = "rejected"),
            !.successCount = 0, !.errorCount = 0, !.startTime = DateNow,
            !.i = 0, !.testFn = "none"]

\* lines 64-74: the warmup has settled either way; the measured phase is set up
WarmupSettle(c) ==
  /\ running = 0
  /\ pc[c] = "warmup"
  /\ frame[c].testFn \in {"resolved", "rejected"}
  /\ measurements' = ResetMeasurements
  /\ frame' = [frame EXCEPT ![c] = WarmupFrame(@, frame[c].testFn)]
  /\ pc' = [pc EXCEPT ![c] = "loop"]
  /\ running' = c
  /\ UNCHANGED analysisVars
  /\ UNCHANGED <<clock, inflight, result>>

\* Mutant: testFn() is called without await; the loop goes on at once.
TrialStartNoAwait(c) ==
  /\ running = c
  /\ pc[c] = "loop"
  /\ frame[c].i < frame[c].iterations
  /\ LET s == TestFnStart(c, frame[c].i,
                          [frame[c] EXCEPT !.iterationStart = PerformanceNow])
     IN /\ frame' = [frame EXCEPT ![c] = [s[1] EXCEPT !.i = @ + 1]]
        /\ inflight' = inflight \cup s[2]
  /\ UNCHANGED analysisVars
  /\ UNCHANGED <<measurements, clock, result, pc, running>>

\* line 91: progress is reported for every tenth trial
ProgressEvery == 10

\* lines 91-93: spinner.text = `Progress: ...` when i % 10 === 0;
\* f.progressCount counts these reports
Reported(f) ==
  IF f.i % ProgressEvery = 0 THEN [f EXCEPT !.progressCount = @ + 1] ELSE f

\* Mutant: the progress is reported at the top of the loop body, after the
\* timer was opened.
TrialStartReports(c) ==
  /\ running = c
  /\ pc[c] = "loop"
  /\ frame[c].i < frame[c].iterations
  /\ LET s == TestFnStart(c, frame[c].i,
                          Reported([frame[c] EXCEPT !.iterationStart = PerformanceNow]))
     IN /\ frame' = [frame EXCEPT ![c] = s[1]]
        /\ inflight' = inflight \cup s[2]
  /\ pc' = [pc EXCEPT ![c] = "trial"]
  /\ running' = 0
  /\ UNCHANGED analysisVars
  /\ UNCHANGED <<measurements, clock, result>>

\* lines 76-80: the loop test; the timer is opened and testFn called
TrialStart(c) ==
  /\ running = c
  /\ pc[c] = "loop"
  /\ frame[c].i < frame[c].iterations
  /\ LET s == TestFnStart(c, frame[c].i,
                          [frame[c] EXCEPT !.iterationStart = PerformanceNow])
     IN /\ frame' = [frame EXCEPT ![c] = s[1]]
        /\ inflight' = inflight \cup s[2]
  /\ pc' = [pc EXCEPT ![c] = "trial"]
  /\ running' = 0
  /\ UNCHANGED analysisVars
  /\ UNCHANGED <<measurements, clock, result>>

\* Mutant: the catch block records the sample but does not count the error.
CountTrialDropsError(f, settled) ==
  IF settled = "resolved"
  THEN [f EXCEPT !.successCount = @ + 1, !.testFn = "none"]
  ELSE [f EXCEPT !.testFn = "none"]

\* lines 81-83 and 85-88: the frame after a trial that settled as `settled`
CountTrial(f, settled) ==
  IF settled = "resolved"
  THEN [f EXCEPT !.successCount = @ + 1, !.testFn = "none"]
  ELSE [f EXCEPT !.errorCount = @ + 1, !.testFn = "none"]

\* Mutant: a rejected trial is rethrown out of benchmark().
AfterTrialRethrows(settled) == IF settled = "rejected" THEN "done" ELSE "progress"

\* lines 79-89: where benchmark() goes on after a trial that settled as
\* `settled`: both the try and the catch path fall through to line 91
AfterTrial(settled) == "progress"

\* lines 81-89: the timer is closed and the sample appended, on either path
TrialSettle(c) ==
  /\ running = 0
  /\ pc[c] = "trial"
  /\ frame[c].testFn \in {"resolved", "rejected"}
  /\ measurements' = Append(measurements, PerformanceNow - frame[c].iterationStart)
  /\ frame' = [frame EXCEPT ![c] = CountTrial(@, frame[c].testFn)]
  /\ pc' = [pc EXCEPT ![c] = AfterTrial(frame[c].testFn)]
  /\ running' = IF AfterTrial(frame[c].testFn) = "done" THEN 0 ELSE c
  /\ UNCHANGED analysisVars
  /\ UNCHANGED <<clock, inflight, result>>

\* lines 91-93 and the i++ of line 76
Progress(c) ==
  /\ running = c
  /\ pc[c] = "progress"
  /\ frame' = [frame EXCEPT ![c] = [Reported(@) EXCEPT !.i = @ + 1]]
  /\ pc' = [pc EXCEPT ![c] = "loop"]
  /\ UNCHANGED analysisVars
  /\ UNCHANGED <<measurements, clock, running, inflight, result>>

\* lines 96-99: the loop has ended; calculateStats returns or throws
Finish(c) ==
  /\ running = c
  /\ pc[c] = "loop"
  /\ ~(frame[c].i < frame[c].iterations)
  /\ result' = [result EXCEPT ![c] =
       CalculateStats(measurements, frame[c].kind, frame[c].iterations,
                      DateNow - frame[c].startTime,
                      frame[c].successCount, frame[c].errorCount)]
  /\ pc' = [pc EXCEPT ![c] = "done"]
  /\ frame' = [frame EXCEPT ![c] = EndedFrame(@)]
  /\ running' = 0
  /\ UNCHANGED analysisVars
  /\ UNCHANGED <<measurements, clock, inflight>>

Next ==
  \/ \E c \in Calls : VerificationCall(c)
  \/ \E c \in Calls : BatchCall(c)
  \/ \E c \in Calls : PartitionStep(c)
  \/ \E c \in Calls : BatchInvoke(c)
  \/ \E r \in inflight : RequestSettle(r)
  \/ \E c \in Calls : WarmupSettle(c)
  \/ \E c \in Calls : TrialStart(c)
  \/ \E c \in Calls : TrialSettle(c)
  \/ \E c \in Calls : Progress(c)
  \/ \E c \in Calls : Finish(c)

Spec == Init /\ [][Next]_vars

\* ----------------------------- two invocations on one PerformanceBenchmarker
\* benchmarkPaymentVerification(endpoint, iterations) called without waiting
\* for the invocation made before: nothing in the class makes a caller wait.
VerificationCallOverlapping(c) ==
  /\ pc[c] = "idle"
  /\ running = 0
  /\ \E n \in 1..MaxOverlapIter :
       EnterBenchmark(c, [IdleFrame EXCEPT !.kind = "verification", !.iterations = n])
  /\ UNCHANGED analysisVars
  /\ UNCHANGED <<measurements, clock, result>>

NextOverlap ==
  \/ \E c \in Calls : VerificationCallOverlapping(c)
  \/ \E r \in inflight : RequestSettle(r)
  \/ \E c \in Calls : WarmupSettle(c)
  \/ \E c \in Calls : TrialStart(c)
  \/ \E c \in Calls : TrialSettle(c)
  \/ \E c \in Calls : Progress(c)
  \/ \E c \in Calls : Finish(c)

SpecOverlap == Init /\ [][NextOverlap]_vars

\* ------------------------------------------- calculateStats on its own
\* Durations a trial can have (thousandths of a ms): 0 at timer resolution,
\* two values that round apart, one large value.
SampleValues == {0, 1234, 1235, 20000}

\* The samples n, n-1, ..., 1 ms, in that (descending) order of arrival.
Ramp(n) == [j \in 1..n |-> (n + 1 - j) * 1000]

StatsInputs ==
  UNION {[1..n -> SampleValues] : n \in 0..MaxStatLen} \cup {Ramp(n) : n \in 1..RampMax}

InitStats ==
  /\ measurements \in StatsInputs
  /\ clock = 0
  /\ running = 0
  /\ pc = [c \in Calls |-> "idle"]
  /\ frame = [c \in Calls |-> IdleFrame]
  /\ inflight = {}
  /\ result = [c \in Calls |-> NoResult]
  /\ AnalysisIdle

\* calculateStats(operation, iterations, totalTimeMs, success, errors) applied
\* to the collection, as benchmark() calls it at line 99.
StatsCall ==
  /\ pc[1] = "idle"
  /\ \E errors \in {0, Min(1, Len(measurements))}, totalTimeMs \in {0, 3} :
       LET n == Len(measurements)
       IN /\ result' = [result EXCEPT ![1] =
               CalculateStats(measurements, "stats", n, totalTimeMs, n - errors, errors)]
          /\ frame' = [frame EXCEPT ![1] = [IdleFrame EXCEPT !.kind = "stats", !.iterations = n]]
  /\ pc' = [pc EXCEPT ![1] = "done"]
  /\ UNCHANGED analysisVars
  /\ UNCHANGED <<measurements, clock, running, inflight>>

NextStats == StatsCall

SpecStats == InitStats /\ [][NextStats]_vars

\* ------------------------------------------------------- analyzeNetwork()
\* Time that passes between two consecutive events of the probes (thousandths
\* of a ms): none at timer resolution, or 40 ms.
ProbeDelays == {0, 40000}

\* analyzeNetwork() up to its first await: the facilitator probes are started.
AnalyzeCall ==
  /\ netpc = "idle"
  /\ probes' = [u \in Urls |->
                  IF u \in SeqRange(Facilitators) THEN MeasureFacilitatorLatency(u)
                  ELSE probes[u]]
  /\ netpc' = "facilitators"
  /\ UNCHANGED exampleVars
  /\ UNCHANGED <<measurements, clock, running, pc, frame, inflight, result,
                 metrics, results, report>>

\* fetch() of probe u settles: on a response the probe reads the body, on a
\* transport failure it goes to its catch.
FetchSettle(u) ==
  /\ probes[u].pc = "fetch"
  /\ \E ok \in BOOLEAN, d \in ProbeDelays :
       /\ clock' = clock + d
       /\ probes' = [probes EXCEPT ![u] =
                       IF ok THEN [@ EXCEPT !.pc = "json"]
                       ELSE ProbeFailed(@)]
  /\ UNCHANGED exampleVars
  /\ UNCHANGED <<measurements, running, pc, frame, inflight, result,
                 netpc, metrics, results, report>>

\* response.json() of probe u settles: the probe returns the elapsed time, or
\* goes to its catch when the body cannot be read.
JsonSettle(u) ==
  /\ probes[u].pc = "json"
  /\ \E ok \in BOOLEAN, d \in ProbeDelays :
       /\ clock' = clock + d
       /\ probes' = [probes EXCEPT ![u] =
                       IF ok THEN ProbeReturns(@, clock + d)
                       ELSE ProbeFailed(@)]
  /\ UNCHANGED exampleVars
  /\ UNCHANGED <<measurements, running, pc, frame, inflight, result,
                 netpc, metrics, results, report>>

\* lines 248-254: the first Promise.all has settled: the RPC probes are started.
AnalyzeRpc ==
  /\ netpc = "facilitators"
  /\ PromiseAll(Facilitators) # "pending"
  /\ IF PromiseAll(Facilitators) = "rejected"
     THEN netpc' = "threw" /\ UNCHANGED probes
     ELSE /\ netpc' = "rpc"
          /\ probes' = [u \in Urls |->
                          IF u \in SeqRange(RpcEndpoints) THEN MeasureRpcLatency(u)
                          ELSE probes[u]]
  /\ UNCHANGED exampleVars
  /\ UNCHANGED <<measurements, clock, running, pc, frame, inflight, result,
                 metrics, results, report>>

\* lines 256-268: the second Promise.all has settled: the metrics are returned.
AnalyzeFinish ==
  /\ netpc = "rpc"
  /\ PromiseAll(RpcEndpoints) # "pending"
  /\ IF PromiseAll(RpcEndpoints) = "rejected"
     THEN netpc' = "threw" /\ UNCHANGED metrics
     ELSE netpc' = "done" /\ metrics' = NetworkMetrics
  /\ UNCHANGED exampleVars
  /\ UNCHANGED <<measurements, clock, running, pc, frame, inflight, result,
                 probes, results, report>>

NextNetwork ==
  \/ AnalyzeCall
  \/ \E u \in Urls : FetchSettle(u)
  \/ \E u \in Urls : JsonSettle(u)
  \/ AnalyzeRpc
  \/ AnalyzeFinish

SpecNetwork == Init /\ [][NextNetwork]_vars

\* ------------------------------------------- displayOptimizations(results, m)
\* The values of the fields the rules read: avgTimeMs and errorRate in
\* hundredths, on both sides of the thresholds; opsPerSecond as calculateStats
\* makes it.
AvgTimes == {5000, 50000, 50001, 60000}
ErrorRates == {0, 500, 501}
OpsValues == {Num(9), Num(10), Num(50), Num(100), PosInfinity}

BenchmarkResults ==
  {[NoValue EXCEPT !.operation = "benchmark", !.avgTimeMs = a, !.errorRate = e,
                   !.opsPerSecond = o] :
     a \in AvgTimes, e \in ErrorRates, o \in OpsValues}

\* The facilitator latencies analyzeNetwork() can return: -1, 50 ms, 200 ms,
\* 200.5 ms.
FacilitatorLatencies ==
  {Ratio(Sentinel, 1), Ratio(50000, 1), Ratio(200000, 1), Ratio(401000, 2)}

InitRecommend ==
  /\ measurements = <<>>
  /\ clock = 0
  /\ running = 0
  /\ pc = [c \in Calls |-> "idle"]
  /\ frame = [c \in Calls |-> IdleFrame]
  /\ inflight = {}
  /\ result = [c \in Calls |-> NoResult]
  /\ probes = [u \in Urls |-> NoProbe]
  /\ netpc = "done"
  /\ \E l \in FacilitatorLatencies :
       metrics = [facilitatorLatency |-> l, rpcLatency |-> Ratio(Sentinel, 1),
                  totalRoundTrips |-> TotalRoundTrips, dataTransferred |-> 0]
  /\ results \in UNION {[1..n -> BenchmarkResults] : n \in 0..MaxResults}
  /\ report = NoReport
  /\ retry = NoRetry
  /\ multichain = ChainIdle

\* displayOptimizations(results, networkMetrics), below its two heading lines
DisplayOptimizations ==
  /\ ~report.shown
  /\ report' = [shown |-> TRUE, lines |-> Printed(Recommendations(results, metrics))]
  /\ UNCHANGED exampleVars
  /\ UNCHANGED <<measurements, clock, running, pc, frame, inflight, result,
                 probes, netpc, metrics, results>>

NextRecommend == DisplayOptimizations

SpecRecommend == InitRecommend /\ [][NextRecommend]_vars

\* --------------------------------------- withRetry(fn, maxRetries, baseDelayMs)
\* The defaults of withRetry (lines 187-188), used by createX402Client.
DefaultMaxRetries == 3
DefaultBaseDelayMs == 1000

\* The base delays given to withRetry (ms).
BaseDelays == {0, 250, DefaultBaseDelayMs}

\* What fn can throw.
RawErrors ==
  {Thrown("object", TRUE, 402, ""), Thrown("object", TRUE, 401, ""),
   Thrown("object", TRUE, 503, ""), Thrown("object", TRUE, -32000, ""),
   Thrown("Error", TRUE, 404, "Not Found"),
   Thrown("Error", FALSE, 0, "User denied transaction signature"),
   Thrown("Error", FALSE, 0, "nonce too low"),
   Thrown("Error", FALSE, 0, "fetch failed"),
   Thrown("string", FALSE, 0, "insufficient funds for transfer"),
   Thrown("string", FALSE, 0, "network is unreachable"),
   Thrown("string", FALSE, 0, "request timeout"),
   Thrown("string", FALSE, 0, "oops"),
   Thrown("other", FALSE, 0, "")}

\* line 192: the loop test with r.attempt; fn is called when it holds, and
\* line 208 throws lastError when it does not
LoopTest(r) ==
  IF r.attempt <= r.maxRetries
  THEN [r EXCEPT !.pc = "attempt", !.calls = @ + 1]
  ELSE [r EXCEPT !.pc = "threw", !.thrown = r.lastError]

\* withRetry is called, by createX402Client with the defaults (line 253) or
\* directly; it runs up to its first await
WithRetryCall ==
  /\ retry.pc = "idle"
  /\ \E caller \in {"direct", "createX402Client"} :
       \E m \in (IF caller = "direct" THEN -1..MaxRetries ELSE {DefaultMaxRetries}),
          b \in (IF caller = "direct" THEN BaseDelays ELSE {DefaultBaseDelayMs}) :
         retry' = LoopTest([NoRetry EXCEPT !.caller = caller, !.maxRetries = m,
                                           !.baseDelayMs = b])
  /\ UNCHANGED <<measurements, clock, running, pc, frame, inflight, result,
                 probes, netpc, metrics, results, report, multichain>>

\* lines 194-204: fn() of the current attempt settles
FnSettle ==
  /\ retry.pc = "attempt"
  /\ \/ retry' = IF AfterSuccess = "returned"
                 THEN [retry EXCEPT !.pc = "returned", !.value = "value"]
                 ELSE LoopTest([retry EXCEPT !.attempt = @ + 1])
     \/ \E e \in RawErrors :
          LET x == Classify(e, Context(retry.attempt, "none"))
          IN retry' =
               IF ~IsRetryable(x) \/ retry.attempt = retry.maxRetries
               THEN [retry EXCEPT !.pc = "threw", !.lastError = x, !.thrown = x]
               ELSE [retry EXCEPT !.pc = "backoff", !.lastError = x,
                                  !.waits = Append(@, Delay(retry.baseDelayMs, retry.attempt))]
  /\ UNCHANGED <<measurements, clock, running, pc, frame, inflight, result,
                 probes, netpc, metrics, results, report, multichain>>

\* line 204 and the attempt++ of line 192: the timer fires after the delay
TimerFires ==
  /\ retry.pc = "backoff"
  /\ clock' = clock + 1000 * retry.waits[Len(retry.waits)]
  /\ retry' = LoopTest([retry EXCEPT !.attempt = @ + 1])
  /\ UNCHANGED <<measurements, running, pc, frame, inflight, result,
                 probes, netpc, metrics, results, report, multichain>>

\* createX402Client, lines 264-266: what withRetry threw is classified again
\* and thrown to main
ClientCatch ==
  /\ retry.pc = "threw"
  /\ retry.caller = "createX402Client"
  /\ retry' = [retry EXCEPT !.pc = "rethrown",
                 !.thrown = Classify(AsThrown(@), Context(0, "client_creation"))]
  /\ UNCHANGED <<measurements, clock, running, pc, frame, inflight, result,
                 probes, netpc, metrics, results, report, multichain>>

NextRetry ==
  \/ WithRetryCall
  \/ FnSettle
  \/ TimerFires
  \/ ClientCatch

\* fn settles and timers fire: every enabled step is taken in the end.
SpecRetry == Init /\ [][NextRetry]_vars /\ WF_vars(NextRetry)

\* ------------------------------- benchmarkBatchOperations up to its warmup
\* The partitioning of longer lists: the call, the loop, and the entry into
\* benchmark() with the iteration count; the benchmark itself is not run.
BatchCallWide(c) == BatchCallWith(c, MaxListLen, MaxGroupSize)

NextBatch ==
  \/ BatchCallWide(1)
  \/ PartitionStep(1)
  \/ BatchInvoke(1)

SpecBatch == Init /\ [][NextBatch]_vars

\* ------------------------------------ MultiChainX402Client.initialize()
\* A private key of process.env: not set, set to something the key
\* constructors reject, or set to a key.
KeyStates == {"missing", "malformed", "valid"}

\* initializeEVM() on client m; it has no await and runs to its return.
\* `built` says that building the account's clients and the scheme and
\* registering it (lines 107-119) did not throw.
InitializeEVM(m, built) ==
  LET called == [m EXCEPT !.attempted = @ \cup {"evm"}]
  IN IF m.evmPrivateKey = "missing"
     THEN [called EXCEPT !.evmInitialized = FALSE]
     ELSE IF m.evmPrivateKey = "malformed" \/ ~built
     THEN [called EXCEPT !.evmInitialized = FALSE]
     ELSE [called EXCEPT !.schemes = Append(@, "exact-evm"),
                         !.walletSetup.evm = "Base",
                         !.everInitialized = @ \cup {"evm"},
                         !.evmInitialized = TRUE]

\* initializeAptos() on client m up to its await of aptos.getChainId()
\* (line 163), or to its return when the key is missing or rejected.
InitializeAptos(m) ==
  LET called == [m EXCEPT !.attempted = @ \cup {"aptos"}]
  IN IF m.aptosPrivateKey = "valid"
     THEN [called EXCEPT !.pc = "connectivity"]
     ELSE [called EXCEPT !.pc = "awaitAptos", !.aptosInitialized = FALSE]

\* lines 162-184: initializeAptos() after getChainId() settled; `connected`
\* says that it resolved, `built` that the scheme was built and registered
\* without a throw.
AfterChainId(m, connected, built) ==
  IF connected /\ built
  THEN [m EXCEPT !.pc = "awaitAptos",
                 !.schemes = Append(@, "exact-aptos"),
                 !.walletSetup.aptos = IF m.isTestnet THEN "Aptos Testnet" ELSE "Aptos Mainnet",
                 !.everInitialized = @ \cup {"aptos"},
                 !.aptosInitialized = TRUE]
  ELSE [m EXCEPT !.pc = "awaitAptos", !.aptosInitialized = FALSE]

\* Mutant: initialize() gives up when the EVM initialization returned false.
AfterEVMGivesUp(evmInitialized) == IF evmInitialized THEN "aptos" ELSE "return"

\* lines 338-339: what initialize() does once initializeEVM() has returned
\* evmInitialized: it calls initializeAptos() whatever the value
AfterEVM(evmInitialized) == "aptos"

\* lines 334-338: initialize() is called on the client, the first time or
\* again, and runs initializeEVM() up to the await of its result
InitializeCall ==
  /\ multichain.pc \in {"idle", "returned"}
  /\ multichain.calls < MaxInitCalls
  /\ \E e \in KeyStates, a \in KeyStates, t \in BOOLEAN, built \in BOOLEAN :
       multichain' =
         InitializeEVM([multichain EXCEPT !.pc = "awaitEVM", !.calls = @ + 1,
                                          !.evmPrivateKey = e, !.aptosPrivateKey = a,
                                          !.isTestnet = t, !.attempted = {},
                                          !.evmInitialized = FALSE,
                                          !.aptosInitialized = FALSE,
                                          !.returned = "none"], built)
  /\ UNCHANGED <<measurements, clock, running, pc, frame, inflight, result,
                 probes, netpc, metrics, results, report, retry>>

\* line 339: initialize() resumes with evmInitialized and calls
\* initializeAptos()
InitializeAptosCall ==
  /\ multichain.pc = "awaitEVM"
  /\ multichain' =
       IF AfterEVM(multichain.evmInitialized) = "aptos"
       THEN InitializeAptos(multichain)
       ELSE [multichain EXCEPT !.pc = "awaitAptos"]
  /\ UNCHANGED <<measurements, clock, running, pc, frame, inflight, result,
                 probes, netpc, metrics, results, report, retry>>

\* lines 162-187: aptos.getChainId() settles and initializeAptos() returns
ChainIdSettle ==
  /\ multichain.pc = "connectivity"
  /\ \E connected \in BOOLEAN, built \in BOOLEAN :
       multichain' = AfterChainId(multichain, connected, built)
  /\ UNCHANGED <<measurements, clock, running, pc, frame, inflight, result,
                 probes, netpc, metrics, results, report, retry>>

\* lines 341-350: initialize() resumes with aptosInitialized and returns
InitializeReturns ==
  /\ multichain.pc = "awaitAptos"
  /\ multichain' =
       [multichain EXCEPT !.pc = "returned",
          !.returned = IF ~multichain.evmInitialized /\ ~multichain.aptosInitialized
                       THEN "false" ELSE "true"]
  /\ UNCHANGED <<measurements, clock, running, pc, frame, inflight, result,
                 probes, netpc, metrics, results, report, retry>>

NextMultiChain ==
  \/ InitializeCall
  \/ InitializeAptosCall
  \/ ChainIdSettle
  \/ InitializeReturns

SpecMultiChain == Init /\ [][NextMultiChain]_vars

\* ------------------- benchmarkBatchOperations with any integer concurrency
\* concurrency is a number parameter that nothing checks (line 161): the call
\* is made with 0 and with a negative level too.
BatchCallAnyConcurrency(c) ==
  /\ MayCall(c)
  /\ \E n \in 0..MaxListLen, k \in -1..MaxGroupSize :
       frame' = [frame EXCEPT ![c] =
                   [IdleFrame EXCEPT !.kind = "batch", !.endpoints = n, !.concurrency = k]]
  /\ pc' = [pc EXCEPT ![c] = "partition"]
  /\ running' = c
  /\ UNCHANGED analysisVars
  /\ UNCHANGED <<measurements, clock, inflight, result>>

\* One pass of the loop of lines 163-165, for as many passes as a loop that
\* ends can make: at most one per endpoint, and one more.
PartitionStepWithin(c) ==
  /\ Len(frame[c].batches) <= frame[c].endpoints
  /\ PartitionStep(c)

\* A further pass of the loop of lines 163-165, made because i is still below
\* endpoints.length. concurrency is 0 or negative here, so i does not grow
\* and the test keeps holding; of these passes the frame keeps the parity of
\* their number (oddPasses), not i and the ever longer batches list.
PartitionStepBeyond(c) ==
  /\ pc[c] = "partition"
  /\ running = c
  /\ frame[c].sliceFrom < frame[c].endpoints
  /\ Len(frame[c].batches) > frame[c].endpoints
  /\ frame' = [frame EXCEPT ![c] = [@ EXCEPT !.oddPasses = ~@]]
  /\ UNCHANGED analysisVars
  /\ UNCHANGED <<measurements, clock, running, pc, inflight, result>>

NextPartition ==
  \/ BatchCallAnyConcurrency(1)
  \/ PartitionStepWithin(1)
  \/ PartitionStepBeyond(1)
  \/ BatchInvoke(1)

\* The loop is synchronous code: it goes on for as long as its test holds.
SpecPartition == Init /\ [][NextPartition]_vars /\ WF_vars(NextPartition)

\* ================================================================ claims
Returned(c) == pc[c] = "done" /\ result[c].status = "returned"
ThrewError(c) == pc[c] = "done" /\ result[c].status = "threw"

\* C1: in every result benchmark() returns, success + errors = iterations.
C1_SuccessPlusErrors ==
  \A c \in Calls :
    Returned(c) =>
      /\ result[c].value.iterations = frame[c].iterations
      /\ result[c].value.success + result[c].value.errors = result[c].value.iterations

C1_Witness ==
  \E c \in Calls :
    /\ Returned(c)
    /\ result[c].value.errors >= 1
    /\ result[c].value.success >= 1

\* C2: when benchmark() hands its samples to calculateStats (the loop has
\* ended), this.measurements holds exactly `iterations` entries; during the
\* measured phase it holds one entry per trial of this invocation that has
\* settled, also on a benchmarker that was used before.
C2_SampleCount ==
  \A c \in Calls :
    /\ pc[c] = "loop" => Len(measurements) = frame[c].i
    /\ pc[c] = "trial" => Len(measurements) = frame[c].i
    /\ pc[c] = "progress" => Len(measurements) = frame[c].i + 1
    /\ (pc[c] = "loop" /\ ~(frame[c].i < frame[c].iterations)) =>
         Len(measurements) = frame[c].iterations

C2_Witness ==
  /\ Returned(1)
  /\ result[1].value.iterations >= 1
  /\ pc[2] = "loop"
  /\ frame[2].iterations = MaxIter
  /\ frame[2].i = frame[2].iterations
  /\ frame[2].errorCount >= 1
  /\ frame[2].warmupWarned

\* C5: with iterations >= 1 benchmark() ends by returning a result, never by
\* propagating a failure of the operation: a rejected trial is counted in
\* errors and the loop goes on, and the result accounts for every trial.
C5_FailuresNotPropagated ==
  /\ [](\A c \in Calls :
          (pc[c] = "done" /\ frame[c].iterations >= 1) =>
             /\ result[c].status = "returned"
             /\ result[c].value.success + result[c].value.errors = frame[c].iterations)
  /\ [][\A c \in Calls :
          (pc[c] = "trial" /\ pc'[c] # "trial" /\ frame[c].testFn = "rejected") =>
             /\ pc'[c] = "progress"
             /\ frame'[c].errorCount = frame[c].errorCount + 1
             /\ frame'[c].successCount = frame[c].successCount]_vars

C5_Witness ==
  \E c \in Calls :
    /\ Returned(c)
    /\ result[c].value.iterations = MaxIter
    /\ result[c].value.errors = result[c].value.iterations

\* C6: a structurally invalid invocation raises instead of returning:
\* benchmark() with iterations = 0 and benchmarkBatchOperations() with an
\* empty endpoint list both end in the error of calculateStats.
C6_InvalidInvocationRaises ==
  \A c \in Calls :
    (pc[c] = "done" /\ (frame[c].iterations = 0
                        \/ (frame[c].kind = "batch" /\ frame[c].endpoints = 0))) =>
      result[c].status = "threw"

C6_Witness ==
  /\ Returned(1)
  /\ ThrewError(2)
  /\ frame[2].kind = "batch"
  /\ frame[2].endpoints = 0

\* C7: a failed warmup is not fatal: the measured phase starts with success,
\* errors and the sample collection as after a successful warmup, all
\* `iterations` trials run and a result is returned.
C7_WarmupFailureNotFatal ==
  /\ [](\A c \in Calls :
          frame[c].warmupWarned =>
             /\ pc[c] \in {"loop", "trial", "progress", "done"}
             /\ pc[c] \in {"loop", "trial"} =>
                  /\ frame[c].successCount + frame[c].errorCount = frame[c].i
                  /\ Len(measurements) = frame[c].i
             /\ (pc[c] = "done" /\ frame[c].iterations >= 1) =>
                  /\ result[c].status = "returned"
                  /\ result[c].value.success + result[c].value.errors
                       = frame[c].iterations)
  /\ [][\A c \in Calls :
          (pc[c] = "warmup" /\ pc'[c] # "warmup") =>
             /\ pc'[c] = "loop"
             /\ frame'[c].iterations = frame[c].iterations
             /\ frame'[c].i = 0
             /\ frame'[c].successCount = 0
             /\ frame'[c].errorCount = 0
             /\ measurements' = <<>>]_vars

C7_Witness ==
  \E c \in Calls :
    /\ Returned(c)
    /\ frame[c].warmupWarned
    /\ result[c].value.iterations = MaxIter
    /\ result[c].value.success = MaxIter

\* C8: the measured trials of one benchmark() run one after the other: every
\* request in flight belongs to the trial the invocation is awaiting, all
\* earlier trials have their sample recorded, and the single-operation
\* benchmark has at most one request in flight.
C8_TrialsSequential ==
  \A c \in Calls :
    /\ \A r \in RequestsOf(c) :
         /\ pc[c] \in {"warmup", "trial"}
         /\ r.trial = CurrentTrial(c)
         /\ r.trial # Warmup => Len(measurements) = r.trial
    /\ frame[c].kind = "verification" => Cardinality(RequestsOf(c)) <= 1

C8_Witness ==
  \E c \in Calls :
    /\ frame[c].kind = "verification"
    /\ pc[c] = "trial"
    /\ frame[c].i >= 1
    /\ RequestsOf(c) # {}

\* C9: in the batch benchmark a measured trial issues requests to the members
\* of exactly one group: while a trial is awaited or has just been recorded,
\* the for-of loop of testFn has dispatched one group.
C9_OneGroupPerTrial ==
  \A c \in Calls :
    (frame[c].kind = "batch" /\ pc[c] \in {"trial", "progress"}) =>
      frame[c].batchIdx = 1

\* The number of samples of s smaller than v, and not larger than v.
CountBelow(s, v) == Cardinality({k \in 1..Len(s) : s[k] < v})
CountUpTo(s, v) == Cardinality({k \in 1..Len(s) : s[k] <= v})

\* v (rounded) is the sample at 0-based position idx of s in ascending order.
IsRanked(s, idx, v) ==
  \E j \in 1..Len(s) :
    /\ (s[j] + 5) \div 10 = v
    /\ CountBelow(s, s[j]) <= idx
    /\ idx < CountUpTo(s, s[j])

\* C3: for a non-empty collection the result of calculateStats satisfies
\* minTimeMs <= p50Ms <= p95Ms <= p99Ms <= maxTimeMs.
C3_PercentilesOrdered ==
  \A c \in Calls :
    result[c].status = "returned" =>
      LET r == result[c].value
      IN /\ r.minTimeMs <= r.p50Ms
         /\ r.p50Ms <= r.p95Ms
         /\ r.p95Ms <= r.p99Ms
         /\ r.p99Ms <= r.maxTimeMs

C3_Witness ==
  /\ result[1].status = "returned"
  /\ measurements[1] > measurements[Len(measurements)]
  /\ result[1].value.minTimeMs < result[1].value.p50Ms
  /\ result[1].value.p50Ms < result[1].value.p95Ms
  /\ result[1].value.p95Ms < result[1].value.p99Ms

\* C4 as stated: each percentile IS the sample at index floor(n * q) of the
\* ascending order, and a single sample is the min, max, avg and every
\* percentile (values compared in thousandths of a millisecond).
C4_UnroundedElement ==
  result[1].status = "returned" =>
    LET r == result[1].value
        n == Len(measurements)
        IsSample(idx, v) ==
          \E j \in 1..n :
            /\ measurements[j] = 10 * v
            /\ CountBelow(measurements, measurements[j]) <= idx
            /\ idx < CountUpTo(measurements, measurements[j])
    IN /\ IsSample((n * 50) \div 100, r.p50Ms)
       /\ IsSample((n * 95) \div 100, r.p95Ms)
       /\ IsSample((n * 99) \div 100, r.p99Ms)
       /\ n = 1 =>
            \A v \in {r.minTimeMs, r.maxTimeMs, r.avgTimeMs, r.p50Ms, r.p95Ms, r.p99Ms} :
               10 * v = measurements[1]

\* C4 (amended): for n >= 1 samples and q in {0.50, 0.95, 0.99} the percentile
\* is the sample at index floor(n * q) of the ascending order, rounded to two
\* decimals, and the index lies in 0..n-1; samples 1..100 ms give p50 = 51,
\* p95 = 96, p99 = 100 ms, and for a single sample the min, max, avg and every
\* percentile are that sample rounded to two decimals.
C4_FloorIndexPercentiles ==
  result[1].status = "returned" =>
    LET r == result[1].value
        n == Len(measurements)
    IN /\ n >= 1
       /\ \A q \in {50, 95, 99} : (n * q) \div 100 \in 0..(n - 1)
       /\ IsRanked(measurements, (n * 50) \div 100, r.p50Ms)
       /\ IsRanked(measurements, (n * 95) \div 100, r.p95Ms)
       /\ IsRanked(measurements, (n * 99) \div 100, r.p99Ms)
       /\ IsRanked(measurements, 0, r.minTimeMs)
       /\ IsRanked(measurements, n - 1, r.maxTimeMs)
       /\ measurements = Ramp(100) =>
            r.p50Ms = 5100 /\ r.p95Ms = 9600 /\ r.p99Ms = 10000
       /\ n = 1 =>
            \A v \in {r.minTimeMs, r.maxTimeMs, r.avgTimeMs, r.p50Ms, r.p95Ms, r.p99Ms} :
               v = (measurements[1] + 5) \div 10

C4_Witness ==
  /\ result[1].status = "returned"
  /\ measurements = Ramp(100)
  /\ result[1].value.p50Ms = 5100
  /\ result[1].value.p95Ms = 9600
  /\ result[1].value.p99Ms = 10000

RECURSIVE Flatten(_)
Flatten(ss) == IF ss = <<>> THEN <<>> ELSE Head(ss) \o Flatten(Tail(ss))

\* C10: n endpoints and concurrency k >= 1 are partitioned into ceil(n / k)
\* consecutive groups that keep the order and hold every endpoint once, each
\* of size k but possibly a smaller last one; benchmark() gets
\* min(10, number of groups) iterations (12 endpoints, k = 5: 3 groups, 3).
C10_PartitionAndIterations ==
  \A c \in Calls :
    (frame[c].kind = "batch" /\ pc[c] = "warmup") =>
      LET n == frame[c].endpoints
          k == frame[c].concurrency
          b == frame[c].batches
          g == Len(b)
      IN /\ g * k >= n
         /\ (g - 1) * k < n \/ g = 0
         /\ Flatten(b) = [j \in 1..n |-> j]
         /\ \A x \in 1..g : Len(b[x]) = (IF x < g THEN k ELSE n - (g - 1) * k)
         /\ \A x \in 1..g : Len(b[x]) >= 1
         /\ frame[c].iterations = (IF g < 10 THEN g ELSE 10)
         /\ (n = 12 /\ k = 5) => (g = 3 /\ frame[c].iterations = 3)

C10_Witness ==
  /\ pc[1] = "warmup"
  /\ frame[1].endpoints = 12
  /\ frame[1].concurrency = 5
  /\ Len(frame[1].batches) = 3
  /\ frame[1].iterations = 3

\* C11: within a batch trial the members of a group are dispatched together
\* and the group ends only when every member has settled: while the batch
\* function runs, the members in flight and the members settled are together
\* exactly the current group; a rejected member neither rejects the function
\* nor stops it before the last group; the next group is dispatched by the
\* settling of the last member in flight, whole.
C11_GroupsSettleInOrder ==
  /\ [](\A c \in Calls :
          (frame[c].kind = "batch" /\ pc[c] \in {"warmup", "trial"}
             /\ frame[c].batchIdx >= 1) =>
             LET f == frame[c]
                 flying == {r.endpoint : r \in RequestsOf(c)}
                 settled == {m.endpoint : m \in f.groupResults}
             IN /\ \A r \in RequestsOf(c) :
                     r.group = f.batchIdx /\ r.trial = CurrentTrial(c)
                /\ flying \cup settled = SeqRange(f.batches[f.batchIdx])
                /\ flying \cap settled = {}
                /\ f.testFn # "rejected"
                /\ f.testFn = "resolved" =>
                     (flying = {} /\ f.batchIdx = Len(f.batches)))
  /\ [][\A c \in Calls :
          (frame[c].kind = "batch" /\ pc[c] \in {"warmup", "trial"}
             /\ pc'[c] = pc[c] /\ frame[c].batchIdx >= 1
             /\ frame'[c].batchIdx # frame[c].batchIdx) =>
             /\ frame'[c].batchIdx = frame[c].batchIdx + 1
             /\ Cardinality(RequestsOf(c)) = 1
             /\ {r \in inflight' : r.owner = c} =
                  GroupRequests(c, CurrentTrial(c), frame[c], frame[c].batchIdx + 1)]_vars

C11_Witness ==
  \E c \in Calls :
    /\ frame[c].kind = "batch"
    /\ pc[c] = "trial"
    /\ Len(frame[c].batches[frame[c].batchIdx]) = 2
    /\ \E m \in frame[c].groupResults : m.status = "rejected"
    /\ Cardinality(RequestsOf(c)) = 1

\* C12: in the batch benchmark, a trial in which an item failed with a status
\* other than 402 is counted in errors.
C12_ItemFailureCounted ==
  \A c \in Calls :
    (frame[c].kind = "batch" /\ pc[c] = "progress"
       /\ \E m \in frame[c].groupResults : m.status = "rejected") =>
       frame[c].errorCount >= 1

\* C13: in benchmarkPaymentVerification a request that ends in a response or
\* in a failure with status 402 makes the trial a success, and a failure with
\* another status or with no response makes it an error.
C13_VerificationOutcomes ==
  /\ [](\A c \in Calls :
          (frame[c].kind = "verification" /\ pc[c] \in {"warmup", "trial"}
             /\ frame[c].outcome # "none") =>
             /\ frame[c].testFn = "resolved" <=> frame[c].outcome \in {"ok", "402"}
             /\ frame[c].testFn = "rejected" <=> frame[c].outcome \in {"500", "noresponse"})
  /\ [][\A c \in Calls :
          (frame[c].kind = "verification" /\ pc[c] = "trial" /\ pc'[c] # "trial") =>
             LET good == frame[c].outcome \in {"ok", "402"}
             IN /\ frame[c].outcome # "none"
                /\ frame'[c].successCount =
                     frame[c].successCount + (IF good THEN 1 ELSE 0)
                /\ frame'[c].errorCount =
                     frame[c].errorCount + (IF good THEN 0 ELSE 1)]_vars

C13_Witness ==
  \E c \in Calls :
    /\ frame[c].kind = "verification"
    /\ pc[c] = "progress"
    /\ frame[c].outcome = "402"
    /\ frame[c].successCount = 1
    /\ frame[c].errorCount = 1

\* C14: measureFacilitatorLatency and measureRpcLatency never throw: a probe
\* whose fetch fails returns -1, a probe whose body cannot be read returns -1,
\* a probe that read the body returns the elapsed time, which is not negative;
\* a probe issues exactly one request, of its own kind.
C14_ProbesNeverThrow ==
  /\ [](\A u \in Urls :
          /\ probes[u].pc # "threw"
          /\ probes[u].pc = "returned" =>
               (probes[u].latency = Sentinel \/ probes[u].latency >= 0)
          /\ probes[u].pc # "idle" =>
               /\ probes[u].requests = 1
               /\ probes[u].request = IF u \in SeqRange(Facilitators)
                                      THEN "GET /supported"
                                      ELSE "POST eth_blockNumber")
  /\ [][\A u \in Urls :
          /\ (probes[u].pc = "fetch" /\ probes'[u].pc \notin {"fetch", "json"}) =>
               (probes'[u].pc = "returned" /\ probes'[u].latency = Sentinel)
          /\ (probes[u].pc = "json" /\ probes'[u].pc # "json") =>
               /\ probes'[u].pc = "returned"
               /\ probes'[u].latency \in {Sentinel, clock' - probes[u].start}
               /\ clock' - probes[u].start >= 0]_vars

C14_Witness ==
  \E u, v \in SeqRange(Facilitators), w \in SeqRange(RpcEndpoints) :
    /\ probes[u].pc = "returned" /\ probes[u].latency = Sentinel
    /\ probes[v].pc = "returned" /\ probes[v].latency > 0
    /\ probes[w].pc = "returned" /\ probes[w].latency = 0

\* C15: analyzeNetwork() starts the probes of both lists before it awaits any:
\* while it awaits the facilitator probes, every RPC probe has been started.
C15_AllProbesStartedTogether ==
  netpc = "facilitators" => \A u \in Urls : probes[u].pc # "idle"

\* C16: analyzeNetwork() never throws and returns only when every probe has
\* returned; totalRoundTrips is the number of configured endpoints,
\* dataTransferred is 0, and when every probe failed both latencies are -1.
C16_AnalysisReturnsMetrics ==
  /\ netpc # "threw"
  /\ netpc = "done" =>
       /\ \A u \in Urls : probes[u].pc = "returned"
       /\ metrics.totalRoundTrips = Cardinality(Urls)
       /\ metrics.dataTransferred = 0
       /\ (\A u \in Urls : probes[u].latency = Sentinel) =>
            /\ metrics.facilitatorLatency = Ratio(Sentinel, 1)
            /\ metrics.rpcLatency = Ratio(Sentinel, 1)

C16_Witness ==
  /\ netpc = "done"
  /\ \A u \in Urls : probes[u].latency = Sentinel
  /\ metrics.totalRoundTrips = 6

\* m is the arithmetic mean of the latencies that are not the sentinel, or
\* the sentinel when there is none.
IsMeanOfAnswers(latencies, m) ==
  LET answers == SelectSeq(latencies, LAMBDA l : l # Sentinel)
  IN IF Len(answers) = 0 THEN m = Ratio(Sentinel, 1)
     ELSE m.num * Len(answers) = SeqSum(answers) * m.den

\* C17: for each class the aggregate latency is the mean of exactly the probe
\* results that are not the sentinel (a latency of 0 included), and the
\* sentinel exactly when no probe of the class succeeded.
C17_MeanOfNonSentinelResults ==
  netpc = "done" =>
    /\ IsMeanOfAnswers(Latencies(Facilitators), metrics.facilitatorLatency)
    /\ IsMeanOfAnswers(Latencies(RpcEndpoints), metrics.rpcLatency)

\* The printed lines hold the heading `text`.
Shows(text) == \E j \in 1..Len(report.lines) : report.lines[j].text = text

\* The printed form of an advice block that fires exactly when `fires`.
Block(fires, advice) ==
  IF fires THEN [j \in 1..Len(advice) |->
                   [style |-> IF j = 1 THEN "yellow" ELSE "gray", text |-> advice[j].text]]
  ELSE <<>>

MeanAvgTimeAbove500 ==
  SeqSum([j \in 1..Len(results) |-> results[j].avgTimeMs]) > 50000 * Len(results)
FacilitatorAbove200 ==
  /\ metrics.facilitatorLatency # Ratio(-1, 1)
  /\ metrics.facilitatorLatency.num > 200000 * metrics.facilitatorLatency.den
SomeErrorRateAbove5 == \E j \in 1..Len(results) : results[j].errorRate > 500
MaxOpsBelow10 ==
  ~ \E j \in 1..Len(results) :
      ~results[j].opsPerSecond.isFinite \/ results[j].opsPerSecond.n >= 10

\* C18: for a non-empty result list each rule fires exactly under its
\* condition (strict comparisons): mean avgTimeMs > 500, facilitatorLatency
\* > 200 (never for -1), some errorRate > 5, max opsPerSecond < 10; the blocks
\* are printed in this order; avg 600, error 0, ops 50, facilitator 50 prints
\* the high-latency block only.
C18_RulesFireOnConditions ==
  (report.shown /\ Len(results) > 0) =>
     /\ Shows("High average latency detected. Consider:") <=> MeanAvgTimeAbove500
     /\ Shows("Facilitator latency is high. Consider:") <=> FacilitatorAbove200
     /\ Shows("Error rate is elevated. Consider:") <=> SomeErrorRateAbove5
     /\ Shows("Low throughput detected. Consider:") <=> MaxOpsBelow10
     /\ (MeanAvgTimeAbove500 \/ FacilitatorAbove200 \/ SomeErrorRateAbove5
           \/ MaxOpsBelow10) =>
          report.lines = Block(MeanAvgTimeAbove500, HighLatencyAdvice)
                           \o Block(FacilitatorAbove200, FacilitatorAdvice)
                           \o Block(SomeErrorRateAbove5, ErrorRateAdvice)
                           \o Block(MaxOpsBelow10, LowThroughputAdvice)
     /\ (Len(results) = 1 /\ results[1].avgTimeMs = 60000 /\ results[1].errorRate = 0
           /\ results[1].opsPerSecond = Num(50)
           /\ metrics.facilitatorLatency = Ratio(50000, 1)) =>
          (Len(report.lines) = 4 /\ report.lines[1].text = HighLatencyAdvice[1].text)

C18_Witness ==
  /\ report.shown
  /\ Len(results) = 2
  /\ results[1].avgTimeMs = 50000 /\ results[2].avgTimeMs = 50001
  /\ results[1].errorRate = 500 /\ results[2].errorRate = 500
  /\ results[1].opsPerSecond = Num(9) /\ results[2].opsPerSecond = Num(10)
  /\ metrics.facilitatorLatency = Ratio(200000, 1)
  /\ Len(report.lines) = 4
  /\ Shows("High average latency detected. Consider:")

\* C19: the closing message is printed exactly when no rule fires, alone;
\* avg 50, error 0, ops 100, facilitator 50 prints it; something is always
\* printed.
C19_LooksGoodIffNoRule ==
  report.shown =>
     /\ Len(report.lines) >= 1
     /\ \A j \in 1..Len(report.lines) :
          report.lines[j] = LooksGood => Len(report.lines) = 1
     /\ Len(results) > 0 =>
          (report.lines = <<LooksGood>> <=>
             ~(MeanAvgTimeAbove500 \/ FacilitatorAbove200 \/ SomeErrorRateAbove5
                 \/ MaxOpsBelow10))
     /\ (Len(results) = 1 /\ results[1].avgTimeMs = 5000 /\ results[1].errorRate = 0
           /\ results[1].opsPerSecond = Num(100)
           /\ metrics.facilitatorLatency = Ratio(50000, 1)) =>
          report.lines = <<LooksGood>>

C19_Witness ==
  /\ report.shown
  /\ Len(results) = 1 /\ results[1].avgTimeMs = 5000 /\ results[1].errorRate = 0
  /\ results[1].opsPerSecond = Num(100)
  /\ metrics.facilitatorLatency = Ratio(50000, 1)
  /\ report.lines = <<LooksGood>>

\* C20: in every result benchmark() returns, with iterations >= 1 and any
\* measured span totalTimeMs >= 0, opsPerSecond is a finite non-negative
\* integer, iterations / totalTimeMs * 1000 rounded, and success and errors
\* are integers.
C20_OpsPerSecondFiniteInteger ==
  \A c \in Calls :
    (Returned(c) /\ result[c].value.iterations >= 1
       /\ result[c].value.totalTimeMs >= 0) =>
       LET v == result[c].value
       IN /\ v.opsPerSecond.isFinite
          /\ v.opsPerSecond.n \in Nat
          /\ 2 * v.totalTimeMs * v.opsPerSecond.n <= 2000 * v.iterations + v.totalTimeMs
          /\ 2 * v.totalTimeMs * (v.opsPerSecond.n + 1) > 2000 * v.iterations + v.totalTimeMs
          /\ v.success \in Nat /\ v.errors \in Nat

\* C21: the samples are local to one invocation, also when two invocations
\* on one benchmarker overlap: throughout its measured phase the collection an
\* invocation appends to holds exactly the samples of its own settled trials,
\* so the result is computed from `iterations` samples of its own.
C21_SamplesOfOwnTrials ==
  \A c \in Calls :
    pc[c] \in {"loop", "trial", "progress"} =>
      Len(measurements) = frame[c].successCount + frame[c].errorCount

\* The classified failure is one withRetry retries.
RetryableFailure(x) ==
  \/ x.type = "NETWORK_ERROR"
  \/ x.type = "PAYMENT_ERROR"
       /\ x.message = "Transaction nonce issue - possible race condition"

\* C22: with maxRetries >= 0 withRetry ends, having called fn at most
\* maxRetries + 1 times: by returning the value of an attempt that succeeded,
\* or by throwing the classified error of its last attempt, which failed.
C22_RetryTerminates ==
  /\ [](retry.maxRetries >= 0 =>
          /\ retry.calls <= retry.maxRetries + 1
          /\ retry.calls = IF retry.pc = "idle" THEN 0 ELSE retry.attempt + 1
          /\ retry.pc = "returned" => retry.value = "value"
          /\ retry.pc # "returned" => retry.value = "none"
          /\ retry.pc = "threw" =>
               /\ retry.thrown = retry.lastError
               /\ retry.thrown.type \in {"PAYMENT_ERROR", "AUTH_ERROR", "NETWORK_ERROR",
                                         "VALIDATION_ERROR", "UNKNOWN_ERROR"}
               /\ retry.thrown.context.attempt = retry.calls - 1)
  /\ [][retry.pc \in {"returned", "threw"} => retry'.calls = retry.calls]_vars
  /\ <>(retry.pc \in {"returned", "threw", "rethrown"})

C22_Witness ==
  /\ retry.pc = "threw"
  /\ retry.maxRetries = 3
  /\ retry.calls = 4
  /\ retry.thrown.type = "NETWORK_ERROR"

\* C23: withRetry goes on to a further attempt only after a failure that is
\* retryable; after any other failure it throws at once: no delay, no
\* further call of fn, whatever attempts remain.
C23_RetryOnlyRetryable ==
  /\ [](retry.pc \in {"attempt", "backoff"} /\ retry.calls >= 2 =>
          RetryableFailure(retry.lastError))
  /\ [][/\ (retry.pc = "attempt" /\ retry'.pc = "backoff") =>
             RetryableFailure(retry'.lastError)
        /\ (retry.pc = "attempt" /\ retry'.lastError # retry.lastError
              /\ ~RetryableFailure(retry'.lastError)) =>
             /\ retry'.pc = "threw"
             /\ retry'.calls = retry.calls
             /\ retry'.waits = retry.waits
             /\ clock' = clock
        /\ (retry'.calls > retry.calls /\ retry.calls >= 1) => retry.pc = "backoff"]_vars

C23_Witness ==
  /\ retry.pc = "threw"
  /\ retry.maxRetries = 3
  /\ retry.calls = 2
  /\ Len(retry.waits) = 1
  /\ retry.lastError.type = "AUTH_ERROR"

\* C24 as stated: the wait after the failed attempt k is baseDelayMs * 2^k,
\* the waits strictly increase, and no wait follows the final failed attempt.
C24_WaitsStrictlyIncrease ==
  /\ \A j \in 1..Len(retry.waits) : retry.waits[j] = retry.baseDelayMs * 2^(j - 1)
  /\ \A j \in 1..(Len(retry.waits) - 1) : retry.waits[j] < retry.waits[j + 1]
  /\ retry.pc \in {"threw", "rethrown"} /\ retry.maxRetries >= 0 =>
       Len(retry.waits) = retry.calls - 1

\* C24: the wait after the failed attempt k (k < maxRetries) is baseDelayMs *
\* 2^k (1000, 2000, 4000 with the defaults); the waits strictly increase when
\* baseDelayMs > 0 and are all 0 when it is 0; no wait follows the final
\* failed attempt.
C24_ExponentialBackoff ==
  /\ \A j \in 1..Len(retry.waits) : retry.waits[j] = retry.baseDelayMs * 2^(j - 1)
  /\ retry.baseDelayMs > 0 =>
       \A j \in 1..(Len(retry.waits) - 1) : retry.waits[j] < retry.waits[j + 1]
  /\ retry.baseDelayMs = 0 => \A j \in 1..Len(retry.waits) : retry.waits[j] = 0
  /\ (retry.baseDelayMs = 1000 /\ Len(retry.waits) = 3) =>
       retry.waits = <<1000, 2000, 4000>>
  /\ retry.pc \in {"threw", "rethrown"} /\ retry.maxRetries >= 0 =>
       Len(retry.waits) = retry.calls - 1
  /\ retry.pc # "idle" /\ retry.maxRetries >= 0 => Len(retry.waits) <= retry.maxRetries

C24_Witness ==
  /\ retry.pc = "threw"
  /\ retry.caller = "direct"
  /\ retry.waits = <<1000, 2000, 4000>>
  /\ retry.calls = 4

\* C29: classify keeps the type of an error it classified before: what
\* createX402Client throws to main has the type withRetry assigned.
C29_ClassifyKeepsType ==
  retry.pc = "rethrown" => retry.thrown.type = retry.lastError.type

\* C25: progress is never reported inside a trial's timed window: a report
\* is made when the sample of the current trial has been appended and before
\* the timer of the next trial is opened; it touches neither the samples nor
\* the timer.
C25_ProgressOutsideTimedWindow ==
  /\ [](\A c \in Calls :
          pc[c] \in {"warmup", "loop", "trial", "progress"} =>
            frame[c].progressCount =
              Cardinality({j \in 0..(frame[c].i - 1) : j % 10 = 0}))
  /\ [][\A c \in Calls :
          frame'[c].progressCount > frame[c].progressCount =>
            /\ pc[c] = "progress" /\ pc'[c] = "loop"
            /\ frame[c].testFn = "none" /\ RequestsOf(c) = {}
            /\ Len(measurements) = frame[c].i + 1
            /\ measurements' = measurements
            /\ frame'[c].iterationStart = frame[c].iterationStart]_vars

C25_Witness ==
  \E c \in Calls :
    /\ pc[c] = "trial"
    /\ frame[c].i = 1
    /\ frame[c].progressCount = 1
    /\ measurements # <<>>
    /\ frame[c].iterationStart > measurements[1]

\* C26: benchmark() calls the operation iterations + 1 times: once as warmup,
\* which has settled before the first trial starts, then once per trial;
\* totalTimeMs runs from the time the warmup had settled to the time the loop
\* has ended, so the warmup is in neither the samples nor totalTimeMs.
C26_WarmupThenIterations ==
  /\ [](\A c \in Calls :
          /\ pc[c] = "warmup" => frame[c].invocations = 1
          /\ pc[c] = "loop" => frame[c].invocations = frame[c].i + 1
          /\ pc[c] \in {"trial", "progress"} => frame[c].invocations = frame[c].i + 2
          /\ pc[c] \in {"loop", "trial", "progress"} =>
               \A r \in RequestsOf(c) : r.trial # -1)
  /\ [][\A c \in Calls :
          /\ (pc[c] = "warmup" /\ pc'[c] # "warmup") =>
               /\ RequestsOf(c) = {}
               /\ measurements' = <<>>
               /\ frame'[c].startTime = clock' \div 1000
          /\ (pc[c] \in {"loop", "trial", "progress"} /\ pc'[c] # "done") =>
               frame'[c].startTime = frame[c].startTime
          /\ (pc[c] = "loop" /\ pc'[c] = "done") =>
               /\ frame[c].invocations = frame[c].iterations + 1
               /\ result'[c].status = "returned" =>
                    /\ result'[c].value.totalTimeMs = (clock \div 1000) - frame[c].startTime
                    /\ Len(measurements) = frame[c].iterations]_vars

C26_Witness ==
  /\ Returned(1)
  /\ result[1].value.iterations = 2
  /\ result[1].value.totalTimeMs = 0
  /\ clock >= 1500
  /\ pc[2] = "idle"

\* C27: displayOptimizations with an empty results list: none of the three
\* rules derived from the benchmarks fires, and with a facilitator latency
\* that is not high the only line printed is the no-action message.
C27_EmptyResultsLookGood ==
  (report.shown /\ Len(results) = 0) =>
     /\ ~Shows("High average latency detected. Consider:")
     /\ ~Shows("Error rate is elevated. Consider:")
     /\ ~Shows("Low throughput detected. Consider:")
     /\ ~FacilitatorAbove200 => report.lines = <<LooksGood>>

\* C28: benchmarkBatchOperations terminates for every finite endpoint list and
\* every integer concurrency, 0 and negative values included: the partitioning
\* loop of a call is left in the end.
C28_PartitionLoopEnds == (pc[1] = "partition") ~> (pc[1] # "partition")

====
